---- MODULE Spec2Model ----
(***************************************************************************)
(* A model of src/index.js (lines 1-352): the connection manager, the      *)
(* sendMessage routine, the scheduled-job registry and the HTTP handlers.  *)
(* Every action is one run-to-completion task of the Node.js event loop:   *)
(* a handler from its first statement to its first pending `await`, or a   *)
(* continuation from one `await` to the next.  Promise reactions           *)
(* (.catch/.finally and the catch blocks of async handlers) run as         *)
(* microtasks of the task that settles the promise, so they belong to the  *)
(* same action.                                                            *)
(*                                                                         *)
(* The external libraries (the protocol client, node-schedule,            *)
(* date-fns-tz, qrcode, fs) are not part of the repository; each call     *)
(* into them is modelled by the set of outcomes the call can have.         *)
(***************************************************************************)
EXTENDS Integers, Sequences, FiniteSets, TLC

\* ------------------------------------------------------------------ bounds
MaxHandles  == 2   \* client handles opened during a run
MaxInFlight == 1   \* sendMessage calls suspended at an await at one time
MaxJobs     == 2   \* registry entries created during a run
MaxTime     == 2   \* the clock runs from 1 to MaxTime
MaxPurges   == 2   \* session purges begun by POST /logout requests without a handle

\* --------------------------------------------------------------- constants
ReconnectDelay == 5000
ExitDelay      == 1000

Suffix == "@s.whatsapp.net"

\* Strings the code only tests for emptiness, containment of a fixed
\* substring, or concatenates, are sequences of tokens; "" is << >>.
Empty == << >>
Numbers  == { Empty, <<"15551234567">>, <<"15551234567", Suffix>>, <<"not connected">> }
Messages == { Empty, <<"hi">> }
\* the recipients of schedule requests
Recipients == { Empty, <<"15551234567">> }

Includes(s, tok) == \E i \in 1..Len(s) : s[i] = tok

\* index.js:48
Jid(number) == IF Includes(number, Suffix) THEN number ELSE Append(number, Suffix)

\* the status codes a close event can carry; "undefined" is a close event
\* whose lastDisconnect.error has no output.statusCode
LoggedOut == "loggedOut"
StatusCodes == { LoggedOut, "connectionLost", "undefined" }

NoUser == 0   \* user: null

\* index.js:34-39
InitialStatus ==
  [connected |-> FALSE, message |-> "Initializing...", user |-> NoUser, qr |-> FALSE]
\* index.js:96
ConnectingStatus ==
  [connected |-> FALSE, message |-> "Connecting to WhatsApp...", user |-> NoUser, qr |-> FALSE]
\* index.js:123
QrStatus ==
  [connected |-> FALSE, message |-> "QR code received. Please scan.", user |-> NoUser, qr |-> TRUE]
\* index.js:120
QrErrorStatus(st) == [st EXCEPT !.message = "Error generating QR code."]
\* index.js:137
LostStatus ==
  [connected |-> FALSE, message |-> "Connection lost. Reconnecting...", user |-> NoUser, qr |-> FALSE]
\* index.js:147-152 ; the user is the one of the handle `sock` refers to
ConnectedStatus(h) ==
  [connected |-> TRUE, message |-> "Connected", user |-> h, qr |-> FALSE]
\* index.js:78
EndedStatus(st) == [st EXCEPT !.message = "Session ended. Restarting...", !.qr = FALSE]

\* ------------------------------------------------------------------- time
\* The clock counts ticks of eight hours.  A schedule request names a local
\* date and time and a timezone; the instant is the tick in UTC.
TimeNames == <<"00:00", "08:00", "16:00">>
TicksPerDay == Len(TimeNames)
DateNames == <<"2030-01-01", "2030-01-02">>

Dates == { "2030-01-01", "not-a-date" }
Times == { "00:00", "08:00", "25:00" }
Timezones == { "UTC", "America/New_York", "Mars/Phobos" }

IndexOf(seq, x) == CHOOSE i \in 1..Len(seq) : seq[i] = x
IsIn(seq, x) == \E i \in 1..Len(seq) : seq[i] = x

\* hours (in ticks) a zone's wall clock is behind UTC
Behind(tz) == IF tz = "America/New_York" THEN 1 ELSE 0
KnownZone(tz) == tz \in {"UTC", "America/New_York"}

InvalidDate == [valid |-> FALSE, t |-> 0]
DateAt(t) == [valid |-> TRUE, t |-> t]

\* a conversion that takes the wall-clock time for UTC
ZonedTimeIgnoringZone(date, time, tz) ==
  IF IsIn(DateNames, date) /\ IsIn(TimeNames, time) /\ KnownZone(tz)
  THEN DateAt((IndexOf(DateNames, date) - 1) * TicksPerDay + (IndexOf(TimeNames, time) - 1))
  ELSE InvalidDate

\* date-fns-tz zonedTimeToUtc(`${date}T${time}:00`, timezone), when it returns
\* (index.js:212,216): the wall-clock time of the zone as a UTC instant, or
\* Invalid Date when the string or the zone is not understood.
ZonedTimeToUtc(date, time, tz) ==
  IF IsIn(DateNames, date) /\ IsIn(TimeNames, time) /\ KnownZone(tz)
  THEN DateAt((IndexOf(DateNames, date) - 1) * TicksPerDay + (IndexOf(TimeNames, time) - 1) + Behind(tz))
  ELSE InvalidDate

\* whether zonedTimeToUtc can throw (a RangeError of Intl.DateTimeFormat for
\* an unknown zone, in the versions of date-fns-tz that do not validate it)
ZonedTimeToUtcMayThrow(date, time, tz) == ~KnownZone(tz)

\* the comparison with its operands exchanged
DateBeforeSwapped(d, t) == d.valid /\ t < d.t

\* index.js:218, JavaScript `a < b` on Dates: false when a is Invalid Date (NaN)
DateBefore(d, t) == d.valid /\ d.t < t

\* Date.prototype.toISOString (index.js:195,297); throws on Invalid Date
ToISOString(d) ==
  [date |-> DateNames[(d.t \div TicksPerDay) + 1], time |-> TimeNames[(d.t % TicksPerDay) + 1]]

\* ----------------------------------------------------------------- errors
NoErr == [kind |-> "none", msg |-> << >>]
\* index.js:46
NotConnectedErr == [kind |-> "NotConnected", msg |-> <<"Client ", "not connected", ".">>]
\* index.js:51
UnknownRecipientErr(number) ==
  [kind |-> "UnknownRecipient", msg |-> <<"Number ">> \o number \o <<" is ", "not on WhatsApp", ".">>]
\* index.js:53 evaluated with sock === null
NullSockErr ==
  [kind |-> "TypeError", msg |-> <<"Cannot read properties of null (reading 'sendMessage')">>]
\* a rejection of sock.onWhatsApp or sock.sendMessage
TransportErr == [kind |-> "Transport", msg |-> <<"Connection Closed">>]

\* -------------------------------------------------------------- variables
VARIABLES
  proc,              \* "running" | "exited" | "crashed"
  listenPending,     \* the server.listen callback has not run yet
  sock,              \* 0 (undefined / null) or the id of the client handle
  connectionStatus,
  isConnecting,
  connPc,            \* the connectToWhatsApp call in flight: "idle" | "loadState" | "fetchVersion"
  connOrigin,        \* who called it: "listen" | "timer"
  handles,           \* library side: handle id -> "unborn" | "opening" | "open" | "closed"
  reconnectTimers,   \* pending setTimeout(connectToWhatsApp, 5000)
  qrPending,         \* some QRCode.toDataURL callbacks are pending
  cleaning,          \* cleanSession() calls in flight
  exitTimers,        \* pending setTimeout(() => process.exit(1), 1000)
  logoutCalls,       \* handle id -> a sock.logout() call of POST /logout is pending on it
  calls,             \* slot -> sendMessage call suspended at an await, or NoCall
  now,               \* the clock
  activeScheduledJobs, \* job id -> [number, message, scheduledTime, timezone, jobInstance]
  scheduler,         \* node-schedule: job id -> [state, at, number, message]
  jobSeq,            \* job ids generated for registry entries so far
  out                \* what the last task did: operation, inputs, HTTP response, io.emit and setTimeout calls

connVars == <<listenPending, sock, connectionStatus, isConnecting, connPc, connOrigin,
              handles, reconnectTimers, qrPending, cleaning, exitTimers, logoutCalls>>
schedVars == <<now, activeScheduledJobs, scheduler, jobSeq>>
vars == <<proc, listenPending, sock, connectionStatus, isConnecting, connPc, connOrigin,
          handles, reconnectTimers, qrPending, cleaning, exitTimers, logoutCalls, calls,
          now, activeScheduledJobs, scheduler, jobSeq, out>>

HandleIds == 1..MaxHandles
Slots == 1..MaxInFlight
JobIds == 1..MaxJobs

NoCall == [pc |-> "none"]

NoOut == [op |-> "none", arg |-> << >>, http |-> 0, emits |-> << >>,
          timeouts |-> << >>, call |-> NoCall]

\* index.js:58-60
StatusEmit(st) == [ev |-> "status", val |-> st]

\* index.js:191-197 and 293-299: the job summaries, by job id
ListJobs(reg) ==
  [id \in DOMAIN reg |->
     [id |-> id, number |-> reg[id].number, message |-> reg[id].message,
      scheduledTime |-> ToISOString(reg[id].scheduledTime), timezone |-> reg[id].timezone]]

\* toISOString throws a RangeError on an Invalid Date, before io.emit is reached
JobsBroadcastThrows(reg) == \E id \in DOMAIN reg : ~reg[id].scheduledTime.valid
\* index.js:190-200
JobsEmit(reg) == [ev |-> "scheduledJobsUpdate", val |-> ListJobs(reg)]

Without(f, x) == [y \in DOMAIN f \ {x} |-> f[y]]
With(f, x, v) == [y \in DOMAIN f \cup {x} |-> IF y = x THEN v ELSE f[y]]

Init ==
  /\ proc = "running"
  /\ listenPending = TRUE
  /\ sock = 0
  /\ connectionStatus = InitialStatus
  /\ isConnecting = FALSE
  /\ connPc = "idle"
  /\ connOrigin = "none"
  /\ handles = [h \in HandleIds |-> "unborn"]
  /\ reconnectTimers = 0
  /\ qrPending = FALSE
  /\ cleaning = 0
  /\ exitTimers = 0
  /\ logoutCalls = [h \in HandleIds |-> FALSE]
  /\ calls = [s \in Slots |-> NoCall]
  /\ now = 1
  /\ activeScheduledJobs = << >>
  /\ scheduler = << >>
  /\ jobSeq = 0
  /\ out = NoOut

\* ------------------------------------------------------ connection manager

\* a connect that forgets to set the flag
connectWithoutFlag(origin) ==
  IF isConnecting
  THEN /\ UNCHANGED <<isConnecting, connectionStatus, connPc, connOrigin>>
       /\ out' = [NoOut EXCEPT !.op = "connect", !.arg = <<origin, "skipped">>]
  ELSE /\ isConnecting' = isConnecting
       /\ connectionStatus' = ConnectingStatus
       /\ connPc' = "loadState"
       /\ connOrigin' = origin
       /\ out' = [NoOut EXCEPT !.op = "connect", !.arg = <<origin, "started">>,
                               !.emits = <<StatusEmit(ConnectingStatus)>>]

\* index.js:90-97, up to the first await; emits what it broadcast
connectToWhatsApp(origin) ==
  IF isConnecting
  THEN /\ UNCHANGED <<isConnecting, connectionStatus, connPc, connOrigin>>
       /\ out' = [NoOut EXCEPT !.op = "connect", !.arg = <<origin, "skipped">>]
  ELSE /\ isConnecting' = TRUE
       /\ connectionStatus' = ConnectingStatus
       /\ connPc' = "loadState"
       /\ connOrigin' = origin
       /\ out' = [NoOut EXCEPT !.op = "connect", !.arg = <<origin, "started">>,
                               !.emits = <<StatusEmit(ConnectingStatus)>>]

Opened == Cardinality({h \in HandleIds : handles[h] # "unborn"})

\* index.js:349-352
ListenCallback ==
  /\ proc = "running"
  /\ listenPending
  /\ listenPending' = FALSE
  /\ connectToWhatsApp("listen")
  /\ UNCHANGED <<proc, sock, handles, reconnectTimers, qrPending, cleaning, exitTimers,
                 logoutCalls, calls, now, activeScheduledJobs, scheduler, jobSeq>>

\* index.js:139, the timer firing
ReconnectTimerFires ==
  /\ proc = "running"
  /\ reconnectTimers > 0
  /\ Opened < MaxHandles
  /\ reconnectTimers' = reconnectTimers - 1
  /\ connectToWhatsApp("timer")
  /\ UNCHANGED <<proc, listenPending, sock, handles, qrPending, cleaning, exitTimers,
                 logoutCalls, calls, now, activeScheduledJobs, scheduler, jobSeq>>

\* index.js:99: useMultiFileAuthState resolves
SessionLoaded ==
  /\ proc = "running"
  /\ connPc = "loadState"
  /\ connPc' = "fetchVersion"
  /\ out' = [NoOut EXCEPT !.op = "sessionLoaded"]
  /\ UNCHANGED <<proc, listenPending, sock, connectionStatus, isConnecting, connOrigin, handles,
                 reconnectTimers, qrPending, cleaning, exitTimers, logoutCalls, calls,
                 now, activeScheduledJobs, scheduler, jobSeq>>

\* index.js:99-100: useMultiFileAuthState or fetchLatestBaileysVersion rejects.
\* The call made by server.listen has a .catch (line 351); the one made by
\* setTimeout (line 139) has none, and Node ends the process on an unhandled
\* rejection.
ConnectFails ==
  /\ proc = "running"
  /\ connPc \in {"loadState", "fetchVersion"}
  /\ connPc' = "idle"
  /\ proc' = IF connOrigin = "timer" THEN "crashed" ELSE proc
  /\ out' = [NoOut EXCEPT !.op = "connectFailed", !.arg = <<connOrigin>>]
  /\ UNCHANGED <<listenPending, sock, connectionStatus, isConnecting, connOrigin, handles,
                 reconnectTimers, qrPending, cleaning, exitTimers, logoutCalls, calls,
                 now, activeScheduledJobs, scheduler, jobSeq>>

\* index.js:100-112 and 185: fetchLatestBaileysVersion resolves, makeWASocket
SocketMade ==
  /\ proc = "running"
  /\ connPc = "fetchVersion"
  /\ \E h \in HandleIds :
       /\ handles[h] = "unborn"
       /\ \A g \in HandleIds : g < h => handles[g] # "unborn"
       /\ sock' = h
       /\ handles' = [handles EXCEPT ![h] = "opening"]
  /\ connPc' = "idle"
  /\ out' = [NoOut EXCEPT !.op = "socketMade"]
  /\ UNCHANGED <<proc, listenPending, connectionStatus, isConnecting, connOrigin,
                 reconnectTimers, qrPending, cleaning, exitTimers, logoutCalls, calls,
                 now, activeScheduledJobs, scheduler, jobSeq>>

\* index.js:115-117: a connection.update with a qr starts a rendering.  A
\* handle that is opening sends any number of them; qrPending says that at
\* least one rendering has not called back.
QrEvent ==
  /\ proc = "running"
  /\ \E h \in HandleIds : handles[h] = "opening"
  /\ qrPending' = TRUE
  /\ out' = [NoOut EXCEPT !.op = "qr"]
  /\ UNCHANGED <<proc, listenPending, sock, connectionStatus, isConnecting, connPc, connOrigin,
                 handles, reconnectTimers, cleaning, exitTimers, logoutCalls, calls,
                 now, activeScheduledJobs, scheduler, jobSeq>>

\* index.js:117-126: the callback of QRCode.toDataURL; other renderings may
\* or may not remain
QrRendered ==
  /\ proc = "running"
  /\ qrPending
  /\ qrPending' \in BOOLEAN
  /\ \E err \in BOOLEAN :
       /\ connectionStatus' = IF err THEN QrErrorStatus(connectionStatus) ELSE QrStatus
       /\ out' = [NoOut EXCEPT !.op = "qrRendered", !.arg = <<err>>,
                               !.emits = <<StatusEmit(connectionStatus')>>]
  /\ UNCHANGED <<proc, listenPending, sock, isConnecting, connPc, connOrigin,
                 handles, reconnectTimers, cleaning, exitTimers, logoutCalls, calls,
                 now, activeScheduledJobs, scheduler, jobSeq>>

\* index.js:76-85, up to the call of cleanSession; `http` is the response
\* the caller sends after it (0 when the caller is no request handler)
handleLogoutAndRestart(opname, arg, http) ==
  /\ connectionStatus' = EndedStatus(connectionStatus)
  /\ cleaning' = cleaning + 1
  /\ out' = [NoOut EXCEPT !.op = opname, !.arg = arg, !.http = http,
                          !.emits = <<StatusEmit(EndedStatus(connectionStatus))>>]

\* a test that reconnects after every close
ShouldReconnectAlways(statusCode) == TRUE

\* index.js:132-133
ShouldReconnect(statusCode) == statusCode # LoggedOut

\* index.js:129-143: connection === 'close'
CloseEvent ==
  /\ proc = "running"
  /\ \E h \in HandleIds, statusCode \in StatusCodes :
       /\ handles[h] \in {"opening", "open"}
       /\ handles' = [handles EXCEPT ![h] = "closed"]
       /\ sock' = 0
       /\ isConnecting' = FALSE
       /\ IF ShouldReconnect(statusCode)
          THEN /\ connectionStatus' = LostStatus
               /\ reconnectTimers' = reconnectTimers + 1
               /\ out' = [NoOut EXCEPT !.op = "close", !.arg = <<h, statusCode>>,
                                       !.emits = <<StatusEmit(LostStatus)>>,
                                       !.timeouts = <<[fn |-> "connectToWhatsApp", delay |-> ReconnectDelay]>>]
               /\ UNCHANGED cleaning
          ELSE /\ handleLogoutAndRestart("close", <<h, statusCode>>, 0)
               /\ UNCHANGED reconnectTimers
  /\ UNCHANGED <<proc, listenPending, connPc, connOrigin, qrPending, exitTimers, logoutCalls, calls,
                 now, activeScheduledJobs, scheduler, jobSeq>>

\* an open handler that also sets the reconnect timer
OpenEventReconnects ==
  /\ proc = "running"
  /\ \E h \in HandleIds :
       /\ handles[h] = "opening"
       /\ sock # 0
       /\ handles' = [handles EXCEPT ![h] = "open"]
       /\ connectionStatus' = ConnectedStatus(sock)
       /\ isConnecting' = FALSE
       /\ reconnectTimers' = reconnectTimers + 1
       /\ out' = [NoOut EXCEPT !.op = "open", !.arg = <<h>>,
                    !.emits = <<StatusEmit(ConnectedStatus(sock))>> \o
                              (IF JobsBroadcastThrows(activeScheduledJobs) THEN << >>
                               ELSE <<JobsEmit(activeScheduledJobs)>>)]
  /\ UNCHANGED <<proc, listenPending, sock, connPc, connOrigin, qrPending,
                 cleaning, exitTimers, logoutCalls, calls, now, activeScheduledJobs, scheduler, jobSeq>>

\* index.js:144-157: connection === 'open'.  broadcastScheduledJobs is the
\* last statement; when it throws nothing of the handler is left to run.
OpenEvent ==
  /\ proc = "running"
  /\ \E h \in HandleIds :
       /\ handles[h] = "opening"
       /\ sock # 0
       /\ handles' = [handles EXCEPT ![h] = "open"]
       /\ connectionStatus' = ConnectedStatus(sock)
       /\ isConnecting' = FALSE
       /\ out' = [NoOut EXCEPT !.op = "open", !.arg = <<h>>,
                    !.emits = <<StatusEmit(ConnectedStatus(sock))>> \o
                              (IF JobsBroadcastThrows(activeScheduledJobs) THEN << >>
                               ELSE <<JobsEmit(activeScheduledJobs)>>)]
  /\ UNCHANGED <<proc, listenPending, sock, connPc, connOrigin, reconnectTimers, qrPending,
                 cleaning, exitTimers, logoutCalls, calls, now, activeScheduledJobs, scheduler, jobSeq>>

\* index.js:62-74 and 81-84: cleanSession settles (files removed, no
\* directory, or another error that is logged); .finally sets the exit timer
SessionCleaned ==
  /\ proc = "running"
  /\ cleaning > 0
  /\ cleaning' = cleaning - 1
  /\ exitTimers' = exitTimers + 1
  /\ \E how \in {"cleaned", "ENOENT", "error"} :
       out' = [NoOut EXCEPT !.op = "sessionCleaned", !.arg = <<how>>,
                            !.timeouts = <<[fn |-> "process.exit", delay |-> ExitDelay]>>]
  /\ UNCHANGED <<proc, listenPending, sock, connectionStatus, isConnecting, connPc, connOrigin,
                 handles, reconnectTimers, qrPending, logoutCalls, calls, now, activeScheduledJobs, scheduler, jobSeq>>

\* index.js:83: process.exit(1)
ExitTimerFires ==
  /\ proc = "running"
  /\ exitTimers > 0
  /\ proc' = "exited"
  /\ exitTimers' = exitTimers - 1
  /\ out' = [NoOut EXCEPT !.op = "exit"]
  /\ UNCHANGED <<listenPending, sock, connectionStatus, isConnecting, connPc, connOrigin,
                 handles, reconnectTimers, qrPending, cleaning, logoutCalls, calls,
                 now, activeScheduledJobs, scheduler, jobSeq>>

\* index.js:326-334: POST /wapp/logout, up to the await of sock.logout() or,
\* without a handle, through the terminal path and the response
LogoutRequest ==
  /\ proc = "running"
  /\ ~listenPending   \* the server is listening
  /\ IF sock # 0
     THEN /\ logoutCalls' = [logoutCalls EXCEPT ![sock] = TRUE]
          /\ out' = [NoOut EXCEPT !.op = "logout", !.arg = <<"client", sock>>]
          /\ UNCHANGED <<connectionStatus, cleaning>>
     ELSE /\ cleaning + exitTimers < MaxPurges
          /\ handleLogoutAndRestart("logout", <<"direct", 0>>, 200)
          /\ UNCHANGED logoutCalls
  /\ UNCHANGED <<proc, listenPending, sock, isConnecting, connPc, connOrigin, handles,
                 reconnectTimers, qrPending, exitTimers, calls,
                 now, activeScheduledJobs, scheduler, jobSeq>>

\* index.js:328-329: sock.logout() resolves and the handler answers.  The
\* client's logout ends its connection (the close event of the handle, with
\* the logged-out code unless the connection ended before) and then resolves.
LogoutResolves ==
  /\ proc = "running"
  /\ \E h \in HandleIds :
       /\ logoutCalls[h]
       /\ handles[h] = "closed"
       /\ logoutCalls' = [logoutCalls EXCEPT ![h] = FALSE]
       /\ out' = [NoOut EXCEPT !.op = "logoutDone", !.arg = <<h>>, !.http = 200]
  /\ UNCHANGED <<proc, listenPending, sock, connectionStatus, isConnecting, connPc, connOrigin,
                 handles, reconnectTimers, qrPending, cleaning, exitTimers, calls,
                 now, activeScheduledJobs, scheduler, jobSeq>>

\* index.js:328: sock.logout() rejects (the client could not send the
\* request).  The handler has no try/catch: the framework answers 500 when it
\* handles rejected handlers, otherwise the rejection is unhandled and Node
\* ends the process.
LogoutFails ==
  /\ proc = "running"
  /\ \E h \in HandleIds, handled \in BOOLEAN :
       /\ logoutCalls[h]
       /\ logoutCalls' = [logoutCalls EXCEPT ![h] = FALSE]
       /\ proc' = IF handled THEN proc ELSE "crashed"
       /\ out' = [NoOut EXCEPT !.op = "logoutFailed", !.arg = <<h>>,
                               !.http = IF handled THEN 500 ELSE 0]
  /\ UNCHANGED <<listenPending, sock, connectionStatus, isConnecting, connPc, connOrigin,
                 handles, reconnectTimers, qrPending, cleaning, exitTimers, calls,
                 now, activeScheduledJobs, scheduler, jobSeq>>

\* index.js:337-344: a frontend client connects to the real-time channel
ClientConnects ==
  /\ proc = "running"
  /\ out' = [NoOut EXCEPT !.op = "ioConnection",
                          !.emits = <<StatusEmit(connectionStatus)>>]
  /\ UNCHANGED <<proc, connVars, calls, now, activeScheduledJobs, scheduler, jobSeq>>

\* index.js:318-323: GET /wapp/status
StatusRequest ==
  /\ proc = "running"
  /\ out' = [NoOut EXCEPT !.op = "status", !.arg = <<connectionStatus>>, !.http = 200]
  /\ UNCHANGED <<proc, connVars, calls, now, activeScheduledJobs, scheduler, jobSeq>>

\* ------------------------------------------------------------ sendMessage

FreeSlots == {s \in Slots : calls[s].pc = "none"}
FirstFree == CHOOSE s \in FreeSlots : \A r \in FreeSlots : s <= r

\* a sendMessage(number, message) call made by `origin` ("api", "ui" or "job")
NewCall(origin, job, number, message) ==
  [pc |-> "start", origin |-> origin, job |-> job, number |-> number, message |-> message,
   jid |-> << >>, lookups |-> 0, found |-> "none",
   dispatches |-> 0, dTarget |-> << >>, dText |-> << >>, dSock |-> 0, dConn |-> FALSE,
   err |-> NoErr]

\* a guard that looks at the handle alone
NotReadyHandleOnly == sock = 0

\* index.js:45: the guard of sendMessage
NotReady == sock = 0 \/ ~connectionStatus.connected

\* a test that takes a missing entry for a present recipient
AbsentEntryOnly(found) == found = "absent"

\* index.js:49-50: `!result?.exists`, for an entry with exists false and for
\* no entry at all
Absent(found) == found \in {"absent", "empty"}

\* index.js:279-285
SendChatStatus(err) ==
  IF err.kind = "none" THEN 200
  ELSE IF Includes(err.msg, "not connected") THEN 503
  ELSE IF Includes(err.msg, "not on WhatsApp") THEN 404
  ELSE 500

\* index.js:256-262
SendNowStatus(err) == IF err.kind = "none" THEN 200 ELSE 500

\* index.js:229: activeScheduledJobs.delete(jobId)
DeleteJob(reg, id) == Without(reg, id)

\* What follows the settling of a sendMessage call `c` (its err field is the
\* outcome), in the task that settles it: the HTTP response of the handler
\* that awaited it (index.js:257-262, 275-286), or the .catch and .finally of
\* the job callback (index.js:225-231).  When broadcastScheduledJobs throws
\* inside .finally the rejection is handled nowhere and Node ends the process.
Settle(opname, c, callsAfter) ==
  /\ calls' = callsAfter
  /\ IF c.origin = "job"
     THEN /\ activeScheduledJobs' = DeleteJob(activeScheduledJobs, c.job)
          /\ IF JobsBroadcastThrows(activeScheduledJobs')
             THEN /\ proc' = "crashed"
                  /\ out' = [NoOut EXCEPT !.op = opname, !.call = [c EXCEPT !.pc = "done"]]
             ELSE /\ proc' = proc
                  /\ out' = [NoOut EXCEPT !.op = opname, !.call = [c EXCEPT !.pc = "done"],
                                          !.emits = <<JobsEmit(activeScheduledJobs')>>]
     ELSE /\ UNCHANGED <<proc, activeScheduledJobs>>
          /\ out' = [NoOut EXCEPT !.op = opname, !.call = [c EXCEPT !.pc = "done"],
                                  !.http = IF c.origin = "api" THEN SendChatStatus(c.err)
                                           ELSE SendNowStatus(c.err)]

\* index.js:44-49, up to the await of sock.onWhatsApp
sendMessage(opname, origin, job, number, message) ==
  LET c == NewCall(origin, job, number, message) IN
  IF NotReady
  THEN Settle(opname, [c EXCEPT !.err = NotConnectedErr], calls)
  ELSE /\ FreeSlots # {}
       /\ calls' = [calls EXCEPT ![FirstFree] =
                      [c EXCEPT !.pc = "lookup", !.jid = Jid(number), !.lookups = 1]]
       /\ out' = [NoOut EXCEPT !.op = opname, !.call = calls'[FirstFree]]
       /\ UNCHANGED <<proc, activeScheduledJobs>>

\* index.js:267-276: POST /wapp/api/sendchat
SendChatRequest ==
  /\ proc = "running"
  /\ \E number \in Numbers, text \in Messages :
       IF number = Empty \/ text = Empty
       THEN /\ out' = [NoOut EXCEPT !.op = "sendchat", !.arg = <<number, text>>, !.http = 400]
            /\ UNCHANGED <<proc, calls, activeScheduledJobs>>
       ELSE sendMessage("sendchat", "api", 0, number, text)
  /\ UNCHANGED <<connVars, now, scheduler, jobSeq>>

\* index.js:203-208 and 254-257: POST /wapp/send-message without a schedule
SendNowRequest ==
  /\ proc = "running"
  /\ \E number \in Numbers, message \in Messages :
       IF number = Empty \/ message = Empty
       THEN /\ out' = [NoOut EXCEPT !.op = "sendnow", !.arg = <<number, message>>, !.http = 400]
            /\ UNCHANGED <<proc, calls, activeScheduledJobs>>
       ELSE sendMessage("sendnow", "ui", 0, number, message)
  /\ UNCHANGED <<connVars, now, scheduler, jobSeq>>

\* index.js:49-53: sock.onWhatsApp settles.  It resolves with an entry that
\* exists, with an entry that does not, with no entry, or it rejects.  On
\* "exists" line 53 reads the global `sock` again and calls sendMessage on it.
LookupSettles ==
  /\ proc = "running"
  /\ \E s \in Slots, found \in {"exists", "absent", "empty", "rejected"} :
       /\ calls[s].pc = "lookup"
       /\ LET c == [calls[s] EXCEPT !.found = found]
              freed == [calls EXCEPT ![s] = NoCall]
          IN CASE found = "rejected" -> Settle("lookup", [c EXCEPT !.err = TransportErr], freed)
               [] found # "rejected" /\ Absent(found) ->
                    Settle("lookup", [c EXCEPT !.err = UnknownRecipientErr(c.number)], freed)
               [] found # "rejected" /\ ~Absent(found) /\ sock = 0 ->
                    Settle("lookup", [c EXCEPT !.err = NullSockErr], freed)
               [] found # "rejected" /\ ~Absent(found) /\ sock # 0 ->
                    /\ calls' = [calls EXCEPT ![s] =
                         [c EXCEPT !.pc = "dispatch", !.dispatches = c.dispatches + 1,
                                   !.dTarget = c.jid, !.dText = c.message,
                                   !.dSock = sock, !.dConn = connectionStatus.connected]]
                    /\ out' = [NoOut EXCEPT !.op = "dispatch", !.call = calls'[s]]
                    /\ UNCHANGED <<proc, activeScheduledJobs>>
  /\ UNCHANGED <<connVars, now, scheduler, jobSeq>>

\* index.js:53-54: sock.sendMessage settles
DispatchSettles ==
  /\ proc = "running"
  /\ \E s \in Slots, ok \in BOOLEAN :
       /\ calls[s].pc = "dispatch"
       /\ Settle("sent", [calls[s] EXCEPT !.err = IF ok THEN NoErr ELSE TransportErr],
                 [calls EXCEPT ![s] = NoCall])
  /\ UNCHANGED <<connVars, now, scheduler, jobSeq>>

\* ------------------------------------------------------ scheduled job registry

\* index.js:213: a fresh job id
NewJobId == jobSeq + 1

\* node-schedule scheduleJob(jobId, date, callback) (index.js:223): a one-time
\* job for a date that is not in the past, and null (no job, no callback) for
\* any other date
CanSchedule(d, t) == d.valid /\ d.t >= t

\* index.js:235-241
JobInfo(number, message, d, tz) ==
  [number |-> number, message |-> message, scheduledTime |-> d, timezone |-> tz,
   jobInstance |-> CanSchedule(d, now)]

\* index.js:203-253: POST /wapp/send-message with a schedule
ScheduleRequest ==
  /\ proc = "running"
  /\ \E number \in Recipients, message \in Messages :
       IF number = Empty \/ message = Empty
       THEN \* line 206
            /\ out' = [NoOut EXCEPT !.op = "schedule", !.arg = <<number, message>>, !.http = 400]
            /\ UNCHANGED <<activeScheduledJobs, scheduler, jobSeq>>
       ELSE \E date \in Dates, time \in Times, tz \in Timezones, throws \in BOOLEAN :
         LET arg == <<number, message, date, time, tz>>
             d == ZonedTimeToUtc(date, time, tz)
             id == NewJobId
             reg == With(activeScheduledJobs, id, JobInfo(number, message, d, tz))
             failed(code) == out' = [NoOut EXCEPT !.op = "schedule", !.arg = arg, !.http = code]
         IN
         IF throws
         THEN \* line 216 throws, line 250 catches
              /\ ZonedTimeToUtcMayThrow(date, time, tz)
              /\ failed(500)
              /\ UNCHANGED <<activeScheduledJobs, scheduler, jobSeq>>
         ELSE IF DateBefore(d, now)
         THEN \* line 218
              /\ failed(400)
              /\ UNCHANGED <<activeScheduledJobs, scheduler, jobSeq>>
         ELSE \* lines 223-241
              /\ jobSeq < MaxJobs
              /\ jobSeq' = id
              /\ scheduler' = IF CanSchedule(d, now)
                              THEN With(scheduler, id, [state |-> "pending", at |-> d.t,
                                                        number |-> number, message |-> message])
                              ELSE scheduler
              /\ activeScheduledJobs' = reg
                 \* line 244: format throws on an Invalid Date; line 247:
                 \* broadcastScheduledJobs throws when an entry holds one
              /\ IF ~d.valid \/ JobsBroadcastThrows(reg)
                 THEN failed(500)
                 ELSE out' = [NoOut EXCEPT !.op = "schedule", !.arg = arg, !.http = 200,
                                           !.emits = <<JobsEmit(reg)>>]
  /\ UNCHANGED <<proc, connVars, calls, now>>

\* index.js:223-232: the scheduler runs the job's callback at its fire time
JobFires ==
  /\ proc = "running"
  /\ \E id \in DOMAIN scheduler :
       /\ scheduler[id].state = "pending"
       /\ scheduler[id].at <= now
       /\ scheduler' = [scheduler EXCEPT ![id].state = "fired"]
       /\ sendMessage("fire", "job", id, scheduler[id].number, scheduler[id].message)
  /\ UNCHANGED <<connVars, now, jobSeq>>

\* node-schedule Job.cancel() on a job whose invocation is pending: the
\* invocation is cancelled and the call returns true
CancelPending(sch, id) == [sch EXCEPT ![id].state = "cancelled"]

\* what Job.cancel() can return for a one-time job that has already fired
CancelFiredReturns == BOOLEAN

\* index.js:304-315: POST /wapp/cancel-schedule.  With jobInstance null line
\* 308 throws a TypeError, which the framework answers with 500.
CancelRequest ==
  /\ proc = "running"
  /\ \E id \in JobIds, ret \in CancelFiredReturns :
       IF id \notin DOMAIN activeScheduledJobs
       THEN /\ ret
            /\ out' = [NoOut EXCEPT !.op = "cancel", !.arg = <<id>>, !.http = 404]
            /\ UNCHANGED <<activeScheduledJobs, scheduler>>
       ELSE IF ~activeScheduledJobs[id].jobInstance
       THEN /\ ret
            /\ out' = [NoOut EXCEPT !.op = "cancel", !.arg = <<id>>, !.http = 500]
            /\ UNCHANGED <<activeScheduledJobs, scheduler>>
       ELSE LET pending == scheduler[id].state = "pending"
                reg == DeleteJob(activeScheduledJobs, id)
            IN /\ pending => ret
               /\ scheduler' = IF pending THEN CancelPending(scheduler, id) ELSE scheduler
               /\ IF ret
                  THEN /\ activeScheduledJobs' = reg
                       /\ IF JobsBroadcastThrows(reg)
                          THEN out' = [NoOut EXCEPT !.op = "cancel", !.arg = <<id>>, !.http = 500]
                          ELSE out' = [NoOut EXCEPT !.op = "cancel", !.arg = <<id>>, !.http = 200,
                                                    !.emits = <<JobsEmit(reg)>>]
                  ELSE /\ UNCHANGED activeScheduledJobs
                       /\ out' = [NoOut EXCEPT !.op = "cancel", !.arg = <<id>>, !.http = 404]
  /\ UNCHANGED <<proc, connVars, calls, now, jobSeq>>

\* index.js:292-301: GET /wapp/scheduled-messages
ListRequest ==
  /\ proc = "running"
  /\ out' = IF JobsBroadcastThrows(activeScheduledJobs)
            THEN [NoOut EXCEPT !.op = "list", !.http = 500]
            ELSE [NoOut EXCEPT !.op = "list", !.http = 200,
                               !.arg = <<ListJobs(activeScheduledJobs)>>]
  /\ UNCHANGED <<proc, connVars, calls, now, activeScheduledJobs, scheduler, jobSeq>>

\* time passes
Tick ==
  /\ proc = "running"
  /\ now < MaxTime
  /\ now' = now + 1
  /\ out' = [NoOut EXCEPT !.op = "tick"]
  /\ UNCHANGED <<proc, connVars, calls, activeScheduledJobs, scheduler, jobSeq>>

\* ---------------------------------------------------------- specifications

ConnNext ==
  \/ ListenCallback
  \/ ReconnectTimerFires
  \/ SessionLoaded
  \/ ConnectFails
  \/ SocketMade
  \/ QrEvent
  \/ QrRendered
  \/ CloseEvent
  \/ OpenEvent
  \/ SessionCleaned
  \/ ExitTimerFires

SendNext ==
  \/ SendChatRequest
  \/ LookupSettles
  \/ DispatchSettles

SchedNext ==
  \/ ScheduleRequest
  \/ JobFires
  \/ CancelRequest
  \/ ListRequest
  \/ Tick

LogoutNext ==
  \/ LogoutRequest
  \/ LogoutResolves
  \/ LogoutFails

\* the whole program
Next == ConnNext \/ LogoutNext \/ ClientConnects \/ StatusRequest
          \/ SendNext \/ SendNowRequest \/ SchedNext
Spec == Init /\ [][Next]_vars

\* the connection manager alone
SpecConn == Init /\ [][ConnNext]_vars

\* the connection manager and the logout requests
SpecLogout == Init /\ [][ConnNext \/ LogoutNext]_vars

\* the connection manager and the sends of the external API
SpecSend == Init /\ [][ConnNext \/ SendNext]_vars

\* the job registry, the sends its jobs make, and one client handle that
\* connects, opens and closes
SchedConn ==
  \/ ListenCallback
  \/ SessionLoaded
  \/ SocketMade
  \/ OpenEvent
  \/ CloseEvent
\* the job registry of a process whose client never connects: every job
\* that fires fails at the guard of sendMessage
SpecRegistry == Init /\ [][SchedNext]_vars

SpecSched == Init /\ [][SchedNext \/ LookupSettles \/ DispatchSettles \/ SchedConn]_vars

\* the job registry and the frontend clients of the real-time channel
SpecSync == Init /\ [][SchedNext \/ ClientConnects]_vars

\* ------------------------------------------------------------------ claims

\* the task that just ran made a sendMessage call (the call is in out.call,
\* settled or suspended)
CallMade(o) == o.op \in {"sendchat", "sendnow", "fire"} /\ o.call.pc # "none"
\* the task that just ran settled a sendMessage call
CallSettled(o) == o.call.pc = "done"

\* C1: a sendMessage call made while ConnectionStatus.connected is false, or
\* while the handle is null, fails with NotConnected, whatever the handle is,
\* and makes no recipient lookup and no dispatch.
C1_NotConnectedFails ==
  [][ (CallMade(out') /\ (~connectionStatus.connected \/ sock = 0))
      => /\ CallSettled(out')
         /\ out'.call.err = NotConnectedErr
         /\ out'.call.lookups = 0
         /\ out'.call.dispatches = 0
         /\ calls' = calls ]_vars

\* C1 witness: a call refused with NotConnected while a handle exists
C1_Witness ==
  /\ CallMade(out)
  /\ out.call.err.kind = "NotConnected"
  /\ sock # 0
  /\ ~connectionStatus.connected

\* C2: a dispatch is issued only on a non-null handle and while
\* ConnectionStatus.connected is true, in every interleaving of the send with
\* close events, reconnects and new connection attempts.
C2_DispatchOnlyWhenConnected ==
  \A s \in Slots :
     calls[s].pc = "dispatch" => (calls[s].dSock # 0 /\ calls[s].dConn)

\* the jid the claim names for a recipient
ExpectedTarget(number) ==
  IF \E i \in 1..Len(number) : number[i] = "@s.whatsapp.net"
  THEN number
  ELSE number \o <<"@s.whatsapp.net">>

\* C3: a sendMessage call made while connected, whose lookup reports the
\* recipient present, makes exactly one dispatch, to the recipient with
\* '@s.whatsapp.net' appended (or unchanged when it contains it) and with the
\* body as text; a failure of the dispatch is the failure of the call.
C3_OneDispatch ==
  (CallSettled(out) /\ out.call.found = "exists")
  => /\ out.call.dispatches = 1
     /\ out.call.dTarget = ExpectedTarget(out.call.number)
     /\ out.call.dText = out.call.message
     /\ out.call.err \in {NoErr, TransportErr}

\* C4: when the lookup reports the recipient absent, or returns no entry,
\* sendMessage fails with UnknownRecipient and makes no dispatch.
C4_AbsentFails ==
  (CallSettled(out) /\ out.call.found \in {"absent", "empty"})
  => /\ out.call.err.kind = "UnknownRecipient"
     /\ out.call.err = UnknownRecipientErr(out.call.number)
     /\ out.call.dispatches = 0

\* C4 witness: a lookup that returned no entry settled the call
C4_Witness ==
  /\ CallSettled(out)
  /\ out.call.found = "empty"
  /\ out.call.err.kind = "UnknownRecipient"

\* C10: a close event with a status code other than logged-out clears the
\* handle, publishes connected:false and sets exactly one reconnect timer of
\* 5 seconds; a close event with the logged-out code starts the terminal path
\* and sets no reconnect timer.
C10_CloseEvent ==
  [][ out'.op = "close"
      => /\ sock' = 0
         /\ IF out'.arg[2] # "loggedOut"
            THEN /\ ~connectionStatus'.connected
                 /\ out'.emits = <<[ev |-> "status", val |-> connectionStatus']>>
                 /\ out'.timeouts = <<[fn |-> "connectToWhatsApp", delay |-> 5000]>>
                 /\ reconnectTimers' = reconnectTimers + 1
                 /\ cleaning' = cleaning
            ELSE /\ out'.timeouts = << >>
                 /\ reconnectTimers' = reconnectTimers
                 /\ cleaning' = cleaning + 1
                 /\ connectionStatus'.message = "Session ended. Restarting..." ]_vars

\* C10 witness: a close event without a status code has set the one
\* reconnect timer
C10_Witness ==
  /\ out.op = "close"
  /\ out.arg[2] = "undefined"
  /\ reconnectTimers = 1
  /\ sock = 0

\* the task that just ran was a schedule request that passed the check of
\* the required fields; its inputs are in out.arg
ScheduleTried(o) == o.op = "schedule" /\ Len(o.arg) = 5

\* the wall-clock tick a request names, and the UTC tick an ISO string names
WallTick(date, time) ==
  (IndexOf(DateNames, date) - 1) * Len(TimeNames) + (IndexOf(TimeNames, time) - 1)
IsoTick(iso) == WallTick(iso.date, iso.time)
Parsable(date, time, tz) ==
  IsIn(DateNames, date) /\ IsIn(TimeNames, time) /\ tz \in {"UTC", "America/New_York"}
UtcTick(date, time, tz) ==
  WallTick(date, time) + (IF tz = "America/New_York" THEN 1 ELSE 0)

\* C5: a schedule request whose fire time is strictly before the current
\* time fails with 400 and registers nothing: the registry and the scheduler
\* are unchanged and no scheduledJobsUpdate is broadcast.
C5_PastScheduleRejected ==
  [][ (/\ ScheduleTried(out')
       /\ Parsable(out'.arg[3], out'.arg[4], out'.arg[5])
       /\ UtcTick(out'.arg[3], out'.arg[4], out'.arg[5]) < now)
      => /\ out'.http = 400
         /\ activeScheduledJobs' = activeScheduledJobs
         /\ scheduler' = scheduler
         /\ out'.emits = << >> ]_vars

\* C5 witness: a request for a past time was refused while the registry
\* held a job
C5_Witness ==
  /\ ScheduleTried(out)
  /\ out.http = 400
  /\ Parsable(out.arg[3], out.arg[4], out.arg[5])
  /\ UtcTick(out.arg[3], out.arg[4], out.arg[5]) < now
  /\ DOMAIN activeScheduledJobs # {}

\* C6: a schedule request whose date, time or timezone cannot be parsed
\* fails, and every failing schedule request leaves the registry as it was.
C6_FailedScheduleLeavesRegistry ==
  [][ ScheduleTried(out')
      => /\ ~Parsable(out'.arg[3], out'.arg[4], out'.arg[5]) => out'.http \in {400, 500}
         /\ out'.http # 200 => activeScheduledJobs' = activeScheduledJobs ]_vars

\* C7: after a schedule request succeeds, list() holds exactly one entry that
\* was not there before, with the recipient, body and timezone of the request
\* and an ISO-8601 fire time that is the UTC instant of the requested
\* wall-clock time; every earlier entry is listed unchanged.
C7_ScheduleAddsOneEntry ==
  [][ (ScheduleTried(out') /\ out'.http = 200)
      => LET before == ListJobs(activeScheduledJobs)
             after == ListJobs(activeScheduledJobs')
         IN /\ \E id \in DOMAIN after \ DOMAIN before :
                 /\ DOMAIN after = DOMAIN before \cup {id}
                 /\ after[id].id = id
                 /\ after[id].number = out'.arg[1]
                 /\ after[id].message = out'.arg[2]
                 /\ after[id].timezone = out'.arg[5]
                 /\ IsoTick(after[id].scheduledTime)
                      = UtcTick(out'.arg[3], out'.arg[4], out'.arg[5])
            /\ \A id \in DOMAIN before : after[id] = before[id] ]_vars

\* C7 witness: a request in the New York zone succeeded while another job
\* was listed
C7_Witness ==
  /\ ScheduleTried(out)
  /\ out.http = 200
  /\ out.arg[5] = "America/New_York"
  /\ Cardinality(DOMAIN activeScheduledJobs) = 2

\* the scheduledJobsUpdate broadcasts of a task
JobsEmits(o) == Cardinality({i \in 1..Len(o.emits) : o.emits[i].ev = "scheduledJobsUpdate"})
ValidDates(reg) == \A id \in DOMAIN reg : reg[id].scheduledTime.valid

\* C8: the task that ends a fired job (its send having succeeded or failed)
\* and the task that cancels a job remove the job from list() and are
\* followed by exactly one scheduledJobsUpdate broadcast for that removal,
\* also when the cancel arrives between the firing and the end of the send.
\* Stated for registries whose dates are all valid.
C8_OneBroadcastPerRemoval ==
  [][ (/\ ValidDates(activeScheduledJobs)
       /\ \/ (CallSettled(out') /\ out'.call.origin = "job")
          \/ (out'.op = "cancel" /\ out'.http = 200))
      => LET id == IF out'.op = "cancel" THEN out'.arg[1] ELSE out'.call.job
         IN /\ id \notin DOMAIN activeScheduledJobs'
            /\ id \in DOMAIN activeScheduledJobs
            /\ JobsEmits(out') = 1 ]_vars

\* C9: cancel of an id that is not in the registry, or of a job that has
\* already fired, fails with 404, leaves the registry unchanged and
\* broadcasts nothing.
C9_CancelUnknownOrFired ==
  [][ (/\ out'.op = "cancel"
       /\ \/ out'.arg[1] \notin DOMAIN activeScheduledJobs
          \/ (out'.arg[1] \in DOMAIN scheduler /\ scheduler[out'.arg[1]].state = "fired"))
      => /\ out'.http = 404
         /\ activeScheduledJobs' = activeScheduledJobs
         /\ out'.emits = << >> ]_vars

\* a connection attempt is in flight: connectToWhatsApp is suspended at an
\* await, or the handle it made has neither opened nor closed
AttemptInFlight ==
  \/ connPc # "idle"
  \/ \E h \in HandleIds : handles[h] = "opening"

LiveHandles == {h \in HandleIds : handles[h] \in {"opening", "open"}}

\* C12: at most one client handle is live at a time: a new handle is only
\* opened when no handle is live, the handle the program holds is the live
\* one, and the close event that clears it is the close of that handle.
C12_OneLiveHandle ==
  [][ /\ Cardinality(LiveHandles') <= 1
      /\ out'.op = "socketMade" => (LiveHandles = {} /\ sock = 0)
      /\ sock' # 0 => sock' \in LiveHandles'
      /\ (out'.op = "close" /\ sock # 0) => out'.arg[1] = sock ]_vars

\* C12 witness: a second handle is open after the first one closed
C12_Witness ==
  /\ handles[1] = "closed"
  /\ handles[2] = "open"
  /\ sock = 2

\* C13 (the part a finite run refutes): the in-flight flag never stays set
\* with no attempt in progress, also after an attempt ended with an error
\* before it opened a handle; so every later connect call can start.
C13_FlagNeverStuck ==
  (proc = "running" /\ isConnecting) => AttemptInFlight

\* the terminal path has started and the process has not exited
TerminalStarted == cleaning > 0 \/ exitTimers > 0

\* C14: once the terminal path has started, until the process exits no
\* connection attempt starts, no client handle is opened and
\* ConnectionStatus is not replaced by a connecting, QR or connected status,
\* also when an attempt or a reconnect timer was pending.
C14_TerminalAbsorbing ==
  [][ TerminalStarted
      => /\ ~(out'.op = "connect" /\ out'.arg[2] = "started")
         /\ out'.op # "socketMade"
         /\ connectionStatus'.message \notin
              {"Connecting to WhatsApp...", "QR code received. Please scan.", "Connected"} ]_vars

\* how many times the terminal path was entered since the process started
TerminalEntries == cleaning + exitTimers + (IF proc = "exited" THEN 1 ELSE 0)

\* C15: a logout request with a handle invokes the client's logout and
\* neither purges the session nor schedules an exit; without a handle it
\* runs the terminal path itself; and when the client's logout call has
\* ended, the terminal path has been entered exactly once.
C15_Logout ==
  [][ /\ out'.op = "logout"
         => IF sock # 0
            THEN /\ logoutCalls'[sock]
                 /\ cleaning' = cleaning /\ exitTimers' = exitTimers
                 /\ connectionStatus' = connectionStatus
                 /\ out'.timeouts = << >>
            ELSE /\ cleaning' = cleaning + 1
                 /\ connectionStatus'.message = "Session ended. Restarting..."
      /\ out'.op \in {"logoutDone", "logoutFailed"} => TerminalEntries' = 1 ]_vars

\* the status code the claim gives a failure of each kind
ClaimedStatus(err) ==
  CASE err.kind = "none" -> 200
    [] err.kind = "NotConnected" -> 503
    [] err.kind = "UnknownRecipient" -> 404
    [] OTHER -> 500

\* C16: POST /api/sendchat answers 400 when number or text is missing and
\* attempts no send; otherwise 503 when the send fails with NotConnected, 404
\* when it fails with UnknownRecipient, 500 for any other failure and
\* success when it does not fail, for every recipient and also when the
\* connection closed while the send was suspended.
C16_SendChatStatus ==
  /\ (out.op = "sendchat" /\ out.call.pc = "none")
       => /\ out.http = 400
          /\ out.arg[1] = << >> \/ out.arg[2] = << >>
  /\ (CallSettled(out) /\ out.call.origin = "api")
       => /\ out.http = ClaimedStatus(out.call.err)
          /\ out.call.number # << >> /\ out.call.message # << >>

\* C17: the task that changes ConnectionStatus broadcasts the new value as a
\* status event, and the task that changes the job registry (entry added,
\* removed on firing, removed on cancel) broadcasts the new job list as a
\* scheduledJobsUpdate event, so before any other change of that state.
C17_BroadcastOnMutation ==
  [][ /\ connectionStatus' # connectionStatus
         => \E i \in 1..Len(out'.emits) :
              out'.emits[i] = [ev |-> "status", val |-> connectionStatus']
      /\ activeScheduledJobs' # activeScheduledJobs
         => \E i \in 1..Len(out'.emits) :
              /\ out'.emits[i].ev = "scheduledJobsUpdate"
              /\ out'.emits[i].val = ListJobs(activeScheduledJobs') ]_vars

\* C18: when a frontend client connects, the current ConnectionStatus and
\* the current scheduled-job list are emitted, and neither ConnectionStatus
\* nor the registry changes.
C18_InitialSync ==
  [][ out'.op = "ioConnection"
      => /\ \E i \in 1..Len(out'.emits) :
              out'.emits[i] = [ev |-> "status", val |-> connectionStatus]
         /\ \E i \in 1..Len(out'.emits) :
              /\ out'.emits[i].ev = "scheduledJobsUpdate"
              /\ out'.emits[i].val = ListJobs(activeScheduledJobs)
         /\ connectionStatus' = connectionStatus
         /\ activeScheduledJobs' = activeScheduledJobs ]_vars

\* C19: a job fires once and its firing makes one sendMessage call; when
\* the call ends, failed or not, the failure goes no further (the process
\* runs on), the job is no longer in the registry and one scheduledJobsUpdate
\* broadcast follows; the events of the connection send nothing.
C19_FiredJobNotRetried ==
  [][ /\ out'.op = "fire"
         => /\ CallMade(out')
            /\ scheduler[out'.call.job].state = "pending"
            /\ scheduler'[out'.call.job].state = "fired"
      /\ (CallSettled(out') /\ out'.call.origin = "job")
         => /\ proc' = "running"
            /\ out'.call.job \notin DOMAIN activeScheduledJobs'
            /\ JobsEmits(out') = 1
            /\ out'.call.lookups + out'.call.dispatches <= 2
      /\ out'.op \in {"connect", "socketMade", "open", "close"} => calls' = calls ]_vars

\* C20: the task that starts the session purge has published the terminal
\* status; whatever the outcome of the purge, its end sets the exit timer
\* of the grace delay; and once the terminal path has started the process
\* ends by that timer and in no other way.
C20_TerminalPath ==
  [][ /\ cleaning' > cleaning
         => /\ connectionStatus'.message = "Session ended. Restarting..."
            /\ out'.emits = <<[ev |-> "status", val |-> connectionStatus']>>
            /\ out'.timeouts = << >>
      /\ out'.op = "sessionCleaned"
         => /\ out'.timeouts = <<[fn |-> "process.exit", delay |-> 1000]>>
            /\ cleaning' = cleaning - 1
      /\ (TerminalStarted /\ proc' # "running")
         => /\ out'.op = "exit"
            /\ exitTimers > 0 ]_vars

\* C21: in every state, ConnectionStatus.connected = true implies that the
\* client handle is non-null; the status a close event publishes, the
\* terminal status included, has connected = false.
C21_ConnectedHasHandle ==
  /\ connectionStatus.connected => sock # 0
  /\ out.op = "close"
       => /\ ~connectionStatus.connected
          /\ \A i \in 1..Len(out.emits) :
                out.emits[i].ev = "status" => ~out.emits[i].val.connected

\* C22: once a cancel request for a job has answered success (after which
\* the job is not in the registry), no dispatch of that job's message is
\* made, however the cancel interleaves with the firing and the awaits of
\* the job's send.
C22_NoDispatchAfterCancel ==
  [][ /\ (out.op = "cancel" /\ out.http = 200)
         => ~(out'.op = "dispatch" /\ out'.call.origin = "job"
              /\ out'.call.job = out.arg[1])
      /\ (out'.op = "dispatch" /\ out'.call.origin = "job")
         => out'.call.job \in DOMAIN activeScheduledJobs ]_vars

\* C23: after an open event has set connected to true only a close event
\* sets it back to false, and a QR rendering that completes after the open
\* event, or after a close or terminal status, leaves the status as it is.
C23_NoStaleQrStatus ==
  [][ /\ (connectionStatus.connected /\ ~connectionStatus'.connected)
         => out'.op = "close"
      /\ (/\ out'.op = "qrRendered"
          /\ connectionStatus.message \in
               {"Connected", "Connection lost. Reconnecting...", "Session ended. Restarting..."})
         => connectionStatus' = connectionStatus ]_vars
====
